---- MODULE Spec2Model ----
(***************************************************************************)
(* A model of aletheia/secrets.py: the Chest (construction, get, create)   *)
(* and the SimpleSecret (plaintext, decrypt, __repr__), together with the  *)
(* two Google services the module calls (Cloud KMS and Cloud Storage), as  *)
(* far as the module's calls observe them.                                 *)
(*                                                                         *)
(* The module is Python 2 code (base64.b64encode of a str at line 74,      *)
(* six.moves.StringIO at line 21), so str, StringIO and base64 behave as   *)
(* in Python 2.7.                                                          *)
(*                                                                         *)
(* Byte strings and JSON values are modelled by what they carry and by how *)
(* they are wrapped: a Value has a payload (kind, key, pt) and a stack of  *)
(* layers (outermost first) that the conversions of the code push and pop. *)
(***************************************************************************)
EXTENDS Naturals, Sequences, FiniteSets

VARIABLES chest, objects, secrets, last, pc, tval, tret

vars == <<chest, objects, secrets, last, pc, tval, tret>>

-----------------------------------------------------------------------------
(* Bounds of the model *)

\* how many Secret instances the caller keeps a reference to
MaxSecrets == 1
\* how many reads of plaintext are followed on one Secret instance
MaxReads == 2
\* how many concurrent callers read plaintext
NumThreads == 2

-----------------------------------------------------------------------------
(* Module constants *)

ALETHEIA_CONTENT_TYPE == "application/x-aletheia-secret"
ALETHEIA_METADATA_KEY == "x-aletheia-secret-key"
NOT_A_SECRET == "THIS IS NOT A SECRET"

-----------------------------------------------------------------------------
(* Inputs *)

Names == {"db/password", "api/token"}
PlainTexts == {"", "s3cr3t"}
Projects == {"proj1"}
ChestNames == {"proj1"}
Buckets == {"proj1-secrets"}
DefaultLocation == "global"
DefaultKeyring == "aletheia"
Threads == 1..NumThreads

Unset == "<unset>"
NoRoute == <<>>

-----------------------------------------------------------------------------
(* Values: Python strings, dicts and None *)

Raw(p) == [layers |-> <<>>, kind |-> "plain", key |-> NoRoute, pt |-> p]
None == [layers |-> <<"None">>, kind |-> "none", key |-> NoRoute, pt |-> ""]

IsNone(v) == v.layers = <<"None">>
IsDict(v) == v.layers # <<>> /\ Head(v.layers) \in {"dict.ciphertext", "dict.plaintext"}
IsBasestring(v) == ~IsNone(v) /\ ~IsDict(v)

\* Python truth value: None and the empty string are false
Truthy(v) == ~IsNone(v) /\ ~(v.layers = <<>> /\ v.kind = "plain" /\ v.pt = "")

b64encode(v) == [v EXCEPT !.layers = <<"b64">> \o @]
b64decode(v) == [v EXCEPT !.layers = Tail(@)]

\* str(x) of a value that is not a string: its printed form
str(v) == [v EXCEPT !.layers = <<"str">> \o @]

\* d[field] of a dict that has the field
Field(d, field) == [d EXCEPT !.layers = Tail(@)]

\* StringIO.StringIO(buf).getvalue() in Python 2
StringIO(buf) == IF IsBasestring(buf) THEN buf ELSE str(buf)

-----------------------------------------------------------------------------
(* Cloud KMS, as cryptoKeys().encrypt / decrypt (...).execute() answer *)

\* the key route built by Chest.__init__
KeyRoute(project_id, location, keyring, chestname) ==
    <<"projects", project_id, "locations", location,
      "keyRings", keyring, "cryptoKeys", chestname>>

ThisRoute == KeyRoute("proj1", DefaultLocation, DefaultKeyring, "proj1")

\* the request body is acceptable: 'plaintext' is the base64 of some bytes
KmsEncryptAccepts(name, b64plaintext) ==
    b64plaintext.layers = <<"b64">> /\ b64plaintext.kind = "plain"

\* the response dict {'name': name, 'ciphertext': <base64 of the ciphertext>}
KmsEncrypt(name, b64plaintext) ==
    [layers |-> <<"dict.ciphertext", "b64">>, kind |-> "cipher",
     key |-> name, pt |-> b64decode(b64plaintext).pt]

\* 'ciphertext' must be the base64 of a ciphertext made under the named key
KmsDecryptAccepts(name, ciphertext) ==
    ciphertext.layers = <<"b64">> /\ ciphertext.kind = "cipher" /\ ciphertext.key = name

\* the response dict {'plaintext': <base64 of the plaintext>}
KmsDecrypt(name, ciphertext) ==
    [layers |-> <<"dict.plaintext", "b64">>, kind |-> "plain",
     key |-> NoRoute, pt |-> ciphertext.pt]

-----------------------------------------------------------------------------
(* Cloud Storage objects of the Chest's bucket *)

MetaHas(md, k) == \E e \in md : e[1] = k
MetaGet(md, k) == (CHOOSE e \in md : e[1] = k)[2]

Absent ==
    [exists |-> FALSE, contentType |-> "", hasMetadata |-> FALSE,
     metadata |-> {}, body |-> None, by |-> "nobody"]

Object(contentType, hasMetadata, metadata, body, by) ==
    [exists |-> TRUE, contentType |-> contentType, hasMetadata |-> hasMetadata,
     metadata |-> metadata, body |-> body, by |-> by]

\* the base64 ciphertext of p under route r, as Cloud KMS hands it out
Ciphertext(r, p) == [layers |-> <<"b64">>, kind |-> "cipher", key |-> r, pt |-> p]

\* objects other writers may have left in the bucket
ForeignObjs ==
    {Object(ALETHEIA_CONTENT_TYPE, TRUE, {<<ALETHEIA_METADATA_KEY, r>>},
            Ciphertext(r, p), "foreign") : r \in {ThisRoute}, p \in PlainTexts}
    \cup
    {Object("text/plain", TRUE, {<<ALETHEIA_METADATA_KEY, ThisRoute>>},
            Raw("s3cr3t"), "foreign"),
     Object("text/plain", FALSE, {}, Raw("s3cr3t"), "foreign"),
     Object(ALETHEIA_CONTENT_TYPE, TRUE, {<<"owner", ThisRoute>>},
            Ciphertext(ThisRoute, "s3cr3t"), "foreign"),
     Object(ALETHEIA_CONTENT_TYPE, FALSE, {},
            Ciphertext(ThisRoute, "s3cr3t"), "foreign")}

-----------------------------------------------------------------------------
(* SimpleSecret *)

\* SimpleSecret.__init__; the counters and origin are history of the instance
SimpleSecret(name, ciphertext, kms_keyname, plaintext) ==
    [name |-> name, ciphertext |-> ciphertext, kms_keyname |-> kms_keyname,
     plaintext |-> plaintext]

History(origin, by) ==
    [origin |-> origin, by |-> by, started |-> 0, okReads |-> 0,
     failedReads |-> 0, decryptCalls |-> 0]

Call(name, ok) == [call |-> name, ok |-> ok]

\* a variant of the test of line 208: "if not self._plaintext"
CacheIsEmptyFalsy(sec) == ~Truthy(sec.plaintext)

\* the test of line 208
CacheIsEmpty(sec) == IsNone(sec.plaintext)

\* SimpleSecret.decrypt: ok, and the value returned when ok
DecryptOk(sec, kmsOk) == kmsOk /\ KmsDecryptAccepts(sec.kms_keyname, sec.ciphertext)
DecryptValue(sec) ==
    b64decode(Field(KmsDecrypt(sec.kms_keyname, sec.ciphertext), "plaintext"))

\* a variant of SimpleSecret.plaintext that caches an empty value when the
\* decrypt call fails
PlaintextReadCachesFailure(sec, kmsOk) ==
    IF IsNone(sec.plaintext)
    THEN IF DecryptOk(sec, kmsOk)
         THEN [outcome |-> "ok", calls |-> <<Call("kms.decrypt", TRUE)>>,
               self |-> [sec EXCEPT !.plaintext = DecryptValue(sec)],
               value |-> DecryptValue(sec)]
         ELSE [outcome |-> "HttpError", calls |-> <<Call("kms.decrypt", FALSE)>>,
               self |-> [sec EXCEPT !.plaintext = Raw("")], value |-> None]
    ELSE [outcome |-> "ok", calls |-> <<>>, self |-> sec, value |-> sec.plaintext]

\* SimpleSecret.plaintext, run by one caller alone
PlaintextRead(sec, kmsOk) ==
    IF CacheIsEmpty(sec)
    THEN IF DecryptOk(sec, kmsOk)
         THEN [outcome |-> "ok", calls |-> <<Call("kms.decrypt", TRUE)>>,
               self |-> [sec EXCEPT !.plaintext = DecryptValue(sec)],
               value |-> DecryptValue(sec)]
         ELSE [outcome |-> "HttpError", calls |-> <<Call("kms.decrypt", FALSE)>>,
               self |-> sec, value |-> None]
    ELSE [outcome |-> "ok", calls |-> <<>>, self |-> sec, value |-> sec.plaintext]

\* SimpleSecret.__repr__
Repr(sec) ==
    [name |-> sec.name,
     status |-> IF Truthy(sec.plaintext) THEN "cleartext" ELSE "encrypted"]

-----------------------------------------------------------------------------
(* Chest *)

NoChest ==
    [constructed |-> FALSE, project_id |-> Unset, chest |-> Unset, bucket |-> Unset,
     location |-> Unset, keyring |-> Unset, keyname |-> NoRoute]

\* a variant of Chest.__init__ that does not raise when the bucket probe fails
ChestInitKeepsGoing(project_id, chestname, bucket, location, keyring, keyOk, bucketOk) ==
    LET name == KeyRoute(project_id, location, keyring, chestname)
        probe == b64encode(Raw(NOT_A_SECRET))
    IN  IF ~(keyOk /\ KmsEncryptAccepts(name, probe))
        THEN [outcome |-> "HttpError", calls |-> <<Call("kms.encrypt", FALSE)>>,
              self |-> NoChest]
        ELSE [outcome |-> "ok",
              calls |-> <<Call("kms.encrypt", TRUE), Call("cs.buckets.get", bucketOk)>>,
              self |-> [constructed |-> TRUE, project_id |-> project_id,
                        chest |-> chestname, bucket |-> bucket,
                        location |-> location, keyring |-> keyring,
                        keyname |-> name]]

\* Chest.__init__
ChestInit(project_id, chestname, bucket, location, keyring, keyOk, bucketOk) ==
    LET name == KeyRoute(project_id, location, keyring, chestname)
        probe == b64encode(Raw(NOT_A_SECRET))
    IN  IF ~(keyOk /\ KmsEncryptAccepts(name, probe))
        THEN [outcome |-> "HttpError", calls |-> <<Call("kms.encrypt", FALSE)>>,
              self |-> NoChest]
        ELSE IF ~bucketOk
        THEN [outcome |-> "RuntimeError",
              calls |-> <<Call("kms.encrypt", TRUE), Call("cs.buckets.get", FALSE)>>,
              self |-> NoChest]
        ELSE [outcome |-> "ok",
              calls |-> <<Call("kms.encrypt", TRUE), Call("cs.buckets.get", TRUE)>>,
              self |-> [constructed |-> TRUE, project_id |-> project_id,
                        chest |-> chestname, bucket |-> bucket,
                        location |-> location, keyring |-> keyring,
                        keyname |-> name]]

NoSecret == SimpleSecret("", None, NoRoute, None)

\* a variant of Chest.get that reports a missing object as it reports a
\* wrongly tagged one
ChestGetMissingAsValueError(self, name, obj) ==
    IF obj.exists /\ obj.contentType = ALETHEIA_CONTENT_TYPE /\ obj.hasMetadata
       /\ MetaHas(obj.metadata, ALETHEIA_METADATA_KEY)
    THEN [outcome |-> "ok",
          calls |-> <<Call("cs.objects.get", TRUE), Call("cs.objects.get_media", TRUE)>>,
          returns |-> TRUE,
          secret |-> SimpleSecret(name, obj.body,
                                  MetaGet(obj.metadata, ALETHEIA_METADATA_KEY), None)]
    ELSE [outcome |-> "ValueError", calls |-> <<Call("cs.objects.get", obj.exists)>>,
          returns |-> FALSE, secret |-> NoSecret]

\* Chest.get, given the object the bucket holds under name
ChestGet(self, name, obj) ==
    IF ~obj.exists
    THEN [outcome |-> "HttpError", calls |-> <<Call("cs.objects.get", FALSE)>>,
          returns |-> FALSE, secret |-> NoSecret]
    ELSE IF obj.contentType = ALETHEIA_CONTENT_TYPE
    THEN IF ~obj.hasMetadata
         THEN [outcome |-> "KeyError", calls |-> <<Call("cs.objects.get", TRUE)>>,
               returns |-> FALSE, secret |-> NoSecret]
         ELSE IF MetaHas(obj.metadata, ALETHEIA_METADATA_KEY)
         THEN [outcome |-> "ok",
               calls |-> <<Call("cs.objects.get", TRUE), Call("cs.objects.get_media", TRUE)>>,
               returns |-> TRUE,
               secret |-> SimpleSecret(name, obj.body,
                                       MetaGet(obj.metadata, ALETHEIA_METADATA_KEY), None)]
         ELSE [outcome |-> "ValueError", calls |-> <<Call("cs.objects.get", TRUE)>>,
               returns |-> FALSE, secret |-> NoSecret]
    ELSE [outcome |-> "ValueError", calls |-> <<Call("cs.objects.get", TRUE)>>,
          returns |-> FALSE, secret |-> NoSecret]

\* a variant of Chest.create that stores the secret before encrypting it
ChestCreateStoresFirst(self, name, secret, encOk, putOk) ==
    LET request == b64encode(secret)
        ciphertext == KmsEncrypt(self.keyname, request)
        stored == Object(ALETHEIA_CONTENT_TYPE, TRUE,
                         {<<ALETHEIA_METADATA_KEY, self.keyname>>},
                         StringIO(secret), "create")
    IN  IF ~putOk
        THEN [outcome |-> "HttpError", calls |-> <<Call("cs.objects.insert", FALSE)>>,
              self |-> self, stores |-> FALSE, obj |-> Absent, resp |-> None,
              returns |-> FALSE, secret |-> NoSecret]
        ELSE IF ~(encOk /\ KmsEncryptAccepts(self.keyname, request))
        THEN [outcome |-> "HttpError",
              calls |-> <<Call("cs.objects.insert", TRUE), Call("kms.encrypt", FALSE)>>,
              self |-> self, stores |-> TRUE, obj |-> stored, resp |-> None,
              returns |-> FALSE, secret |-> NoSecret]
        ELSE [outcome |-> "ok",
              calls |-> <<Call("cs.objects.insert", TRUE), Call("kms.encrypt", TRUE)>>,
              self |-> self, stores |-> TRUE, obj |-> stored, resp |-> ciphertext,
              returns |-> TRUE,
              secret |-> SimpleSecret(name, ciphertext, self.keyname, secret)]

\* Chest.create
ChestCreate(self, name, secret, encOk, putOk) ==
    LET request == b64encode(secret)
        ciphertext == KmsEncrypt(self.keyname, request)
    IN  IF ~(encOk /\ KmsEncryptAccepts(self.keyname, request))
        THEN [outcome |-> "HttpError", calls |-> <<Call("kms.encrypt", FALSE)>>,
              self |-> self, stores |-> FALSE, obj |-> Absent, resp |-> None,
              returns |-> FALSE, secret |-> NoSecret]
        ELSE IF ~putOk
        THEN [outcome |-> "HttpError",
              calls |-> <<Call("kms.encrypt", TRUE), Call("cs.objects.insert", FALSE)>>,
              self |-> self, stores |-> FALSE, obj |-> Absent, resp |-> ciphertext,
              returns |-> FALSE, secret |-> NoSecret]
        ELSE [outcome |-> "ok",
              calls |-> <<Call("kms.encrypt", TRUE), Call("cs.objects.insert", TRUE)>>,
              self |-> self, stores |-> TRUE,
              obj |-> Object(ALETHEIA_CONTENT_TYPE, TRUE,
                             {<<ALETHEIA_METADATA_KEY, self.keyname>>},
                             StringIO(ciphertext), "create"),
              resp |-> ciphertext,
              returns |-> TRUE,
              secret |-> SimpleSecret(name, ciphertext, self.keyname, secret)]

-----------------------------------------------------------------------------
(* State *)

Idle == [at |-> "idle", sec |-> 0]

\* what the last operation was, what it called and how it ended
\* (env: what the services consulted were ready to answer, in call order)
Last(op, name, outcome, calls, value, resp, sec, pt, env) ==
    [op |-> op, name |-> name, outcome |-> outcome, calls |-> calls,
     value |-> value, resp |-> resp, sec |-> sec, pt |-> pt, env |-> env]

\* the answers of the services an operation got to consult
Consulted(first, second) == IF first THEN <<first, second>> ELSE <<first>>

\* what a caller got from its last read: the instance read and the value
NoRet == [sec |-> 0, value |-> None]

AllIdle == \A t \in Threads : pc[t].at = "idle"

\* the caller keeps the newest MaxSecrets instances; older ones are dropped
Keep(seq) == IF Len(seq) > MaxSecrets THEN Tail(seq) ELSE seq

Init ==
    /\ chest = NoChest
    /\ objects = [n \in Names |-> Absent]
    /\ secrets = <<>>
    /\ last = Last("none", "", "ok", <<>>, None, None, 0, "", <<>>)
    /\ pc = [t \in Threads |-> Idle]
    /\ tval = [t \in Threads |-> None]
    /\ tret = [t \in Threads |-> NoRet]

-----------------------------------------------------------------------------
(* Operations *)

\* Chest(project_id, chest, bucket): the two probes answer keyOk and bucketOk
Construct ==
    /\ ~chest.constructed
    /\ \E project_id \in Projects, chestname \in ChestNames, bucket \in Buckets,
          keyOk \in BOOLEAN, bucketOk \in BOOLEAN :
          LET r == ChestInit(project_id, chestname, bucket, DefaultLocation,
                             DefaultKeyring, keyOk, bucketOk)
          IN  /\ chest' = r.self
              /\ last' = Last("init", "", r.outcome, r.calls, None, None, 0, "",
                              Consulted(keyOk, bucketOk))
    /\ UNCHANGED <<objects, secrets, pc, tval, tret>>

\* another writer puts an object under a name that holds none
ForeignPut ==
    /\ \E name \in Names, obj \in ForeignObjs :
          /\ ~objects[name].exists
          /\ objects' = [objects EXCEPT ![name] = obj]
          /\ last' = Last("foreign", name, "ok", <<>>, None, None, 0, "", <<>>)
    /\ UNCHANGED <<chest, secrets, pc, tval, tret>>

\* chest.create(name, p): the two services answer encOk and putOk
Create ==
    /\ chest.constructed
    /\ AllIdle
    /\ \E name \in Names, p \in PlainTexts, encOk \in BOOLEAN, putOk \in BOOLEAN :
          LET r == ChestCreate(chest, name, Raw(p), encOk, putOk)
              kept == IF r.returns
                      THEN Keep(Append(secrets,
                                [self |-> r.secret, hist |-> History("create", "create")]))
                      ELSE secrets
          IN  /\ chest' = r.self
              /\ objects' = IF r.stores THEN [objects EXCEPT ![name] = r.obj] ELSE objects
              /\ secrets' = kept
              /\ last' = Last("create", name, r.outcome, r.calls, None, r.resp,
                              IF r.returns THEN Len(kept) ELSE 0, p, Consulted(encOk, putOk))
              /\ tret' = IF r.returns THEN [t \in Threads |-> NoRet] ELSE tret
    /\ UNCHANGED <<pc, tval>>

\* chest.get(name)
Get ==
    /\ chest.constructed
    /\ AllIdle
    /\ \E name \in Names :
          LET r == ChestGet(chest, name, objects[name])
              kept == IF r.returns
                      THEN Keep(Append(secrets,
                                [self |-> r.secret,
                                 hist |-> History("get", objects[name].by)]))
                      ELSE secrets
          IN  /\ secrets' = kept
              /\ last' = Last("get", name, r.outcome, r.calls, None, None,
                              IF r.returns THEN Len(kept) ELSE 0, "", <<>>)
              /\ tret' = IF r.returns THEN [t \in Threads |-> NoRet] ELSE tret
    /\ UNCHANGED <<chest, objects, pc, tval>>

\* secret.plaintext read by one caller, nobody else reading
Plaintext ==
    /\ AllIdle
    /\ \E i \in 1..Len(secrets), kmsOk \in BOOLEAN :
          LET s == secrets[i]
              r == PlaintextRead(s.self, kmsOk)
              h == [s.hist EXCEPT
                      !.started = @ + 1,
                      !.decryptCalls = @ + Len(r.calls),
                      !.okReads = IF r.outcome = "ok" THEN @ + 1 ELSE @,
                      !.failedReads = IF r.outcome = "ok" THEN @ ELSE @ + 1]
          IN  /\ s.hist.started < MaxReads
              /\ secrets' = [secrets EXCEPT ![i] = [self |-> r.self, hist |-> h]]
              /\ last' = Last("plaintext", s.self.name, r.outcome, r.calls, r.value,
                              None, i, "", IF r.calls = <<>> THEN <<>> ELSE <<kmsOk>>)
    /\ UNCHANGED <<chest, objects, pc, tval, tret>>

Next == Construct \/ ForeignPut \/ Create \/ Get \/ Plaintext

Spec == Init /\ [][Next]_vars

-----------------------------------------------------------------------------
(* secret.plaintext read by several callers at once: the steps of lines    *)
(* 208 to 211, one caller at a time taking one step                        *)

\* line 208: the test
ReadTest(t) ==
    /\ pc[t].at = "idle"
    /\ \E i \in 1..Len(secrets) :
          /\ secrets[i].hist.started < MaxReads
          /\ pc' = [pc EXCEPT ![t] =
                      [at |-> IF CacheIsEmpty(secrets[i].self) THEN "decrypt" ELSE "return",
                       sec |-> i]]
          /\ secrets' = [secrets EXCEPT ![i].hist.started = @ + 1]
    /\ UNCHANGED <<chest, objects, last, tval, tret>>

\* line 209, right-hand side: self.decrypt()
ReadDecrypt(t) ==
    /\ pc[t].at = "decrypt"
    /\ \E kmsOk \in BOOLEAN :
          LET i == pc[t].sec
              s == secrets[i].self
          IN  IF DecryptOk(s, kmsOk)
              THEN /\ tval' = [tval EXCEPT ![t] = DecryptValue(s)]
                   /\ pc' = [pc EXCEPT ![t].at = "assign"]
                   /\ secrets' = [secrets EXCEPT ![i].hist.decryptCalls = @ + 1]
                   /\ tret' = tret
              ELSE /\ tval' = tval
                   /\ pc' = [pc EXCEPT ![t] = Idle]
                   /\ secrets' = [secrets EXCEPT ![i].hist.decryptCalls = @ + 1,
                                                 ![i].hist.failedReads = @ + 1]
                   /\ tret' = [tret EXCEPT ![t] = NoRet]
    /\ UNCHANGED <<chest, objects, last>>

\* line 209, the assignment to self._plaintext
ReadAssign(t) ==
    /\ pc[t].at = "assign"
    /\ secrets' = [secrets EXCEPT ![pc[t].sec].self.plaintext = tval[t]]
    /\ tval' = [tval EXCEPT ![t] = None]
    /\ pc' = [pc EXCEPT ![t].at = "return"]
    /\ UNCHANGED <<chest, objects, last, tret>>

\* line 211: return self._plaintext
ReadReturn(t) ==
    /\ pc[t].at = "return"
    /\ tret' = [tret EXCEPT ![t] =
                    [sec |-> pc[t].sec, value |-> secrets[pc[t].sec].self.plaintext]]
    /\ secrets' = [secrets EXCEPT ![pc[t].sec].hist.okReads = @ + 1]
    /\ pc' = [pc EXCEPT ![t] = Idle]
    /\ UNCHANGED <<chest, objects, last, tval>>

Test == \E t \in Threads : ReadTest(t)
Decrypt == \E t \in Threads : ReadDecrypt(t)
Assign == \E t \in Threads : ReadAssign(t)
Return == \E t \in Threads : ReadReturn(t)

NextConc == Construct \/ ForeignPut \/ Create \/ Get \/ Test \/ Decrypt \/ Assign \/ Return

SpecConc == Init /\ [][NextConc]_vars

-----------------------------------------------------------------------------
(* Properties *)

SecretIdx == 1..Len(secrets)
EnvOk == \A k \in DOMAIN last.env : last.env[k]
WronglyTagged(o) ==
    o.exists /\ (\/ o.contentType # ALETHEIA_CONTENT_TYPE
                 \/ ~o.hasMetadata
                 \/ ~MetaHas(o.metadata, ALETHEIA_METADATA_KEY))

\* C1: with the Key Service answering, reading plaintext of the Secret that
\* get returns for an object written by create(name, P) yields exactly P.
C1_CreateGetRoundTrip ==
    (/\ last.op = "plaintext"
     /\ EnvOk
     /\ secrets[last.sec].hist.origin = "get"
     /\ secrets[last.sec].hist.by = "create")
    => (/\ last.outcome = "ok"
        /\ last.value = Raw(secrets[last.sec].self.ciphertext.pt))

\* C2: on a Secret returned by get, with no decrypt call failing, callers
\* reading plaintext at the same time issue at most one decrypt call, and all
\* the callers that returned got the same plaintext.
C2_SingleFlight ==
    /\ \A i \in SecretIdx :
          (secrets[i].hist.origin = "get" /\ secrets[i].hist.failedReads = 0)
          => secrets[i].hist.decryptCalls <= 1
    /\ \A t, u \in Threads :
          (tret[t].sec # 0 /\ tret[t].sec = tret[u].sec)
          => tret[t].value = tret[u].value

\* C3: on a Secret returned by get, read by one caller at a time, once a read
\* has succeeded exactly one decrypt call has succeeded (every other call
\* issued belongs to a failed read), the cache holds the decrypted value, and
\* every later read returns that value with no call; the empty plaintext
\* included.
C3_SequentialReadsDecryptOnce ==
    /\ \A i \in SecretIdx :
          (secrets[i].hist.origin = "get" /\ secrets[i].hist.okReads >= 1)
          => (/\ secrets[i].hist.decryptCalls = secrets[i].hist.failedReads + 1
              /\ secrets[i].self.plaintext = Raw(secrets[i].self.ciphertext.pt))
    /\ (/\ last.op = "plaintext"
        /\ last.outcome = "ok"
        /\ secrets[last.sec].hist.origin = "get"
        /\ secrets[last.sec].hist.okReads >= 2)
       => (/\ last.calls = <<>>
           /\ last.value = Raw(secrets[last.sec].self.ciphertext.pt))

C3_Witness ==
    /\ last.op = "plaintext"
    /\ last.outcome = "ok"
    /\ secrets[last.sec].hist.origin = "get"
    /\ secrets[last.sec].hist.okReads >= 2
    /\ secrets[last.sec].hist.failedReads = 0
    /\ secrets[last.sec].hist.decryptCalls = 1
    /\ last.value = Raw("")

\* C4: get of an existing object with another content-type, or without the
\* key-route metadata field (or without any metadata), ends with ValueError
\* (InvalidSecretFormat) and returns no Secret.
C4_WronglyTaggedIsInvalidFormat ==
    (last.op = "get" /\ WronglyTagged(objects[last.name]))
    => (last.outcome = "ValueError" /\ last.sec = 0)

C6_ConstructionFailsFast ==
    /\ ~chest.constructed
       => (/\ chest = NoChest
           /\ secrets = <<>>
           /\ last.op \notin {"create", "get", "plaintext"}
           /\ \A n \in Names : objects[n].by # "create")
    /\ chest.constructed
       => (/\ chest.project_id \in Projects
           /\ chest.chest \in ChestNames
           /\ chest.bucket \in Buckets
           /\ chest.location = DefaultLocation
           /\ chest.keyring = DefaultKeyring
           /\ chest.keyname = KeyRoute(chest.project_id, chest.location,
                                       chest.keyring, chest.chest))
    /\ last.op = "init"
       => (/\ ~last.env[1]
              => (/\ last.outcome = "HttpError"
                  /\ last.calls = <<Call("kms.encrypt", FALSE)>>
                  /\ ~chest.constructed)
           /\ (last.env[1] /\ ~last.env[2])
              => (/\ last.outcome = "RuntimeError"
                  /\ last.calls = <<Call("kms.encrypt", TRUE),
                                    Call("cs.buckets.get", FALSE)>>
                  /\ ~chest.constructed)
           /\ (last.env[1] /\ last.env[2])
              => (/\ last.outcome = "ok"
                  /\ last.calls = <<Call("kms.encrypt", TRUE),
                                    Call("cs.buckets.get", TRUE)>>
                  /\ chest.constructed))

C6_Witness ==
    /\ last.op = "init"
    /\ last.env = <<TRUE, FALSE>>
    /\ last.outcome = "RuntimeError"
    /\ ~chest.constructed

\* C7: after a successful create(name, P) the object under name has the
\* secret content-type, the metadata field x-aletheia-secret-key holding the
\* Chest's key route, and as body the ciphertext the Key Service returned
\* (as returned, or base64-decoded), the same ciphertext the returned Secret
\* holds.
C7_StoredObjectFormat ==
    (last.op = "create" /\ last.outcome = "ok")
    => LET o == objects[last.name]
       IN  /\ o.exists
           /\ o.contentType = ALETHEIA_CONTENT_TYPE
           /\ o.hasMetadata
           /\ MetaHas(o.metadata, ALETHEIA_METADATA_KEY)
           /\ MetaGet(o.metadata, ALETHEIA_METADATA_KEY) = chest.keyname
           /\ o.body \in {Field(last.resp, "ciphertext"),
                          b64decode(Field(last.resp, "ciphertext"))}
           /\ secrets[last.sec].self.ciphertext = o.body

\* C8: the representation of a Secret holds its name and a status only, and
\* the status is "cleartext" exactly when the cache holds a decrypted value
\* and "encrypted" exactly when it holds none; the empty plaintext included.
C8_ReprStatusTracksCache ==
    \A i \in SecretIdx :
        /\ DOMAIN Repr(secrets[i].self) = {"name", "status"}
        /\ Repr(secrets[i].self).name = secrets[i].self.name
        /\ Repr(secrets[i].self).status = "cleartext"
           <=> ~IsNone(secrets[i].self.plaintext)
        /\ Repr(secrets[i].self).status = "encrypted"
           <=> IsNone(secrets[i].self.plaintext)

\* a step that is a read of plaintext on the instance in slot i
ReadStepOn(i) ==
    /\ Len(secrets') = Len(secrets)
    /\ i \in SecretIdx
    /\ secrets'[i].hist.started = secrets[i].hist.started + 1
    /\ last'.op = "plaintext"
    /\ last'.sec = i

\* C9: a read of plaintext whose decrypt call fails ends with the Key
\* Service's HttpError (DecryptionFailed), leaves the cache empty and the
\* instance's name, ciphertext and key route as they were; and the read that
\* follows a failed read issues a decrypt call of its own.
C9_FailedDecryptIsRetried ==
    [][\A i \in SecretIdx :
         /\ (ReadStepOn(i) /\ IsNone(secrets[i].self.plaintext) /\ ~last'.env[1])
            => last'.outcome = "HttpError"
         /\ (ReadStepOn(i) /\ last'.outcome # "ok")
            => (/\ last'.outcome = "HttpError"
                /\ last'.calls = <<Call("kms.decrypt", FALSE)>>
                /\ IsNone(secrets'[i].self.plaintext)
                /\ secrets'[i].self = secrets[i].self)
         /\ (/\ ReadStepOn(i)
             /\ last.op = "plaintext" /\ last.sec = i /\ last.outcome # "ok")
            => (/\ Len(last'.calls) = 1
                /\ last'.calls[1].call = "kms.decrypt")
      ]_vars

C9_Witness ==
    /\ last.op = "plaintext"
    /\ last.outcome = "ok"
    /\ last.calls = <<Call("kms.decrypt", TRUE)>>
    /\ secrets[last.sec].hist.failedReads >= 1
    /\ ~IsNone(secrets[last.sec].self.plaintext)

\* C10: create calls encrypt and, only after encrypt has succeeded, the
\* store; when encrypt fails no put is issued and the bucket is unchanged;
\* when the put fails no Secret is returned; a create that does not end well
\* returns no Secret; no other name's object changes; the Chest's fields are
\* unchanged in every outcome.
C10_CreateEncryptThenStore ==
    [][last'.op = "create"
       => /\ chest' = chest
          /\ \A k \in DOMAIN last'.calls :
                last'.calls[k].call = "cs.objects.insert"
                => (k > 1 /\ last'.calls[k - 1] = Call("kms.encrypt", TRUE))
          /\ ~last'.env[1]
             => (/\ objects' = objects
                 /\ secrets' = secrets
                 /\ last'.outcome # "ok"
                 /\ last'.calls = <<Call("kms.encrypt", FALSE)>>)
          /\ (last'.env[1] /\ ~last'.env[2])
             => (/\ secrets' = secrets
                 /\ last'.sec = 0
                 /\ last'.outcome # "ok")
          /\ last'.outcome # "ok" => (secrets' = secrets /\ last'.sec = 0)
          /\ \A n \in Names : n # last'.name => objects'[n] = objects[n]
      ]_vars

C10_Witness ==
    /\ last.op = "create"
    /\ ~last.env[1]
    /\ last.outcome = "HttpError"
    /\ objects[last.name].exists

====
